---- MODULE Spec2Model ----
(***************************************************************************)
(* The shared "nerve" data model of nerve-visuals (class NerveData) and    *)
(* the handlers of a scene that drive it: setup, draw, mousePressed,       *)
(* keyPressed, and the resolution of the fetches it starts; then the       *)
(* histories of the pulse sketch and the fragments of the fracture sketch. *)
(*                                                                         *)
(* Numbers are exact rationals [n, d] in lowest terms; the clock is in     *)
(* milliseconds, as millis() reports it.                                   *)
(***************************************************************************)
EXTENDS Integers, Sequences, FiniteSets, Bags, TLC

(***************************************************************************)
(* Bounds of the exploration.                                              *)
(***************************************************************************)
\* frames drawn in one run
MaxTicks == 2
\* fetches started in one run (the constructor's probe and setup's included)
MaxFetches == 3
\* clicks in one run of Spec and of SpecPulse
MaxClicks == 1

(***************************************************************************)
(* Exact rational arithmetic.                                              *)
(***************************************************************************)
Abs(x) == IF x < 0 THEN -x ELSE x

RECURSIVE Gcd(_, _)
Gcd(a, b) == IF b = 0 THEN a ELSE Gcd(b, a % b)

Lcm(a, b) == (a \div Gcd(a, b)) * b

\* the rational n/d, d > 0, in lowest terms
R(n, d) == LET g == Gcd(Abs(n), d) IN [n |-> n \div g, d |-> d \div g]

RatAdd(a, b) ==
  LET l == Lcm(a.d, b.d) IN R(a.n * (l \div a.d) + b.n * (l \div b.d), l)

RatSub(a, b) == RatAdd(a, [n |-> -b.n, d |-> b.d])

RatMul(a, b) ==
  LET g1 == Gcd(Abs(a.n), b.d)
      g2 == Gcd(Abs(b.n), a.d)
  IN  R((a.n \div g1) * (b.n \div g2), (a.d \div g2) * (b.d \div g1))

RatLeq(a, b) == RatSub(b, a).n >= 0

\* an interpolation measured from the wrong end
lerpFromStop(start, stop, amt) == RatAdd(RatMul(amt, RatSub(start, stop)), stop)

\* p5's lerp(start, stop, amt) = amt * (stop - start) + start
lerp(start, stop, amt) == RatAdd(RatMul(amt, RatSub(stop, start)), start)

(***************************************************************************)
(* Constants of NerveData.                                                 *)
(***************************************************************************)
lerpSpeed == R(2, 100)
fetchInterval == 60000
fetchTimeout == 8000

\* the clock is read once per poll interval, up to the first reading at
\* which a poll is due
ClockStep == fetchInterval
MaxTime == fetchInterval + ClockStep

DomainNames ==
  <<"Markets", "Climate", "Information", "Social/Conflict", "Supply Chain">>

DomainSet == {DomainNames[i] : i \in 1..Len(DomainNames)}

\* a ladder entry's domains, in the order of DomainNames, in hundredths
SimDomains(m, c, i, s, u) ==
  [d \in DomainSet |->
     CASE d = "Markets" -> R(m, 100)
       [] d = "Climate" -> R(c, 100)
       [] d = "Information" -> R(i, 100)
       [] d = "Social/Conflict" -> R(s, 100)
       [] d = "Supply Chain" -> R(u, 100)]

simLevels ==
  << [edge |-> R(8, 100),  regime |-> "CALM",     fragility |-> R(5, 100),
      domains |-> SimDomains(5, 3, 4, 2, 10)],
     [edge |-> R(22, 100), regime |-> "CALM",     fragility |-> R(15, 100),
      domains |-> SimDomains(18, 8, 15, 12, 25)],
     [edge |-> R(38, 100), regime |-> "ELEVATED", fragility |-> R(35, 100),
      domains |-> SimDomains(35, 15, 32, 28, 45)],
     [edge |-> R(52, 100), regime |-> "ELEVATED", fragility |-> R(50, 100),
      domains |-> SimDomains(55, 25, 48, 42, 55)],
     [edge |-> R(65, 100), regime |-> "STRESSED", fragility |-> R(65, 100),
      domains |-> SimDomains(72, 38, 62, 58, 68)],
     [edge |-> R(78, 100), regime |-> "STRESSED", fragility |-> R(78, 100),
      domains |-> SimDomains(82, 55, 75, 72, 78)],
     [edge |-> R(88, 100), regime |-> "CRITICAL", fragility |-> R(88, 100),
      domains |-> SimDomains(92, 72, 88, 85, 90)],
     [edge |-> R(96, 100), regime |-> "CRITICAL", fragility |-> R(95, 100),
      domains |-> SimDomains(98, 88, 95, 94, 97)] >>

\* simLevels[level], with the source's 0-based index
SimAt(level) == simLevels[level + 1]

(***************************************************************************)
(* JSON values as the endpoint can send them, and what JavaScript makes of *)
(* them.                                                                   *)
(***************************************************************************)
JNum(r) == [t |-> "number", num |-> r, str |-> ""]
JStr(s) == [t |-> "string", num |-> R(0, 1), str |-> s]
JUndefined == [t |-> "undefined", num |-> R(0, 1), str |-> ""]
JNull == [t |-> "null", num |-> R(0, 1), str |-> ""]

\* JavaScript truthiness: 0, "", null and undefined are falsy
Truthy(v) ==
  CASE v.t = "number" -> v.num.n # 0
    [] v.t = "string" -> v.str # ""
    [] OTHER -> FALSE

\* `v || 0.0` for a v that is a number or missing
OrZero(v) == IF Truthy(v) THEN v.num ELSE R(0, 1)

\* one entry of domain_scores: an object with a score, or null
Entry(key, score) == [key |-> key, t |-> "object", score |-> score]
NullEntry(key) == [key |-> key, t |-> "null", score |-> JUndefined]

NoScores == [t |-> "undefined", entries |-> << >>]
Scores(entries) == [t |-> "object", entries |-> entries]

Payload(e, r, f, m, ts, ds) ==
  [t |-> "object", edge_score |-> e, regime |-> r, fragility_ratio |-> f,
   momentum |-> m, timestamp |-> ts, domain_scores |-> ds]

\* the JSON document `null`
NullData ==
  [t |-> "null", edge_score |-> JUndefined, regime |-> JUndefined,
   fragility_ratio |-> JUndefined, momentum |-> JUndefined,
   timestamp |-> JUndefined, domain_scores |-> NoScores]

\* {edge_score: 0.42, regime: "STRESSED", fragility_ratio: 0.3,
\*  domain_scores: {"Markets": {"score": 0.5}}}
PayloadA ==
  Payload(JNum(R(42, 100)), JStr("STRESSED"), JNum(R(3, 10)), JUndefined,
          JUndefined, Scores(<<Entry("Markets", JNum(R(1, 2)))>>))

\* an unknown key, a score that is not a number, no fragility_ratio
PayloadB ==
  Payload(JNum(R(9, 10)), JStr("CRITICAL"), JUndefined, JNum(R(1, 10)),
          JStr("t1"),
          Scores(<<Entry("Crypto", JNum(R(7, 10))),
                   Entry("Climate", JStr("high")),
                   Entry("Supply Chain", JNum(R(6, 10)))>>))

\* a known domain whose entry is null, after one that is well formed
PayloadC ==
  Payload(JNum(R(3, 10)), JStr("ELEVATED"), JNum(R(2, 10)), JUndefined,
          JUndefined,
          Scores(<<Entry("Information", JNum(R(4, 10))),
                   NullEntry("Markets")>>))

\* edge_score is a string
PayloadNoEdge ==
  Payload(JStr("0.42"), JStr("CALM"), JUndefined, JUndefined, JUndefined,
          NoScores)

\* regime is the empty string
PayloadNoRegime ==
  Payload(JNum(R(42, 100)), JStr(""), JUndefined, JUndefined, JUndefined,
          NoScores)

\* PayloadA with a regime that is a number: {.., regime: 5, ..}
PayloadNumRegime ==
  Payload(JNum(R(42, 100)), JNum(R(5, 1)), JNum(R(3, 10)), JUndefined,
          JUndefined, Scores(<<Entry("Markets", JNum(R(1, 2)))>>))

\* PayloadA with a key every object inherits in place of the domain:
\* {.., domain_scores: {"toString": {"score": 0.7}}}
PayloadProtoKey ==
  Payload(JNum(R(42, 100)), JStr("STRESSED"), JNum(R(3, 10)), JUndefined,
          JUndefined, Scores(<<Entry("toString", JNum(R(7, 10)))>>))

\* scores outside [0, 1]:
\* {edge_score: 1.5, regime: "CRITICAL",
\*  domain_scores: {"Markets": {"score": -0.2}}}
PayloadOutOfRange ==
  Payload(JNum(R(3, 2)), JStr("CRITICAL"), JUndefined, JUndefined,
          JUndefined, Scores(<<Entry("Markets", JNum(R(-2, 10)))>>))

\* what resp.text() can deliver: a text, and the value it parses to if any
Text(parses, data) == [parses |-> parses, data |-> data]

Texts ==
  { Text(FALSE, NullData),          \* "{not json"
    Text(TRUE, NullData),           \* "null"
    Text(TRUE, PayloadA), Text(TRUE, PayloadB), Text(TRUE, PayloadC),
    Text(TRUE, PayloadNoEdge), Text(TRUE, PayloadNoRegime) }

\* bodies that pass the validation of fetchLive with values the documented
\* payload never has
TextsOffContract ==
  { Text(TRUE, PayloadNumRegime), Text(TRUE, PayloadProtoKey),
    Text(TRUE, PayloadOutOfRange) }

AnyTexts == Texts \cup TextsOffContract

\* the texts of Texts but for PayloadA: of the bodies that pass the
\* validation, the one whose entries are partly unusable and the one whose
\* loop throws half way
TextsOfNext == Texts \ {Text(TRUE, PayloadA)}

\* JSON.parse(text): the value, or a SyntaxError
JSONParse(text) ==
  IF text.parses THEN [threw |-> FALSE, data |-> text.data]
  ELSE [threw |-> TRUE, data |-> NullData]

\* the status line and content-type header of a response
Response(ok, hasType, type) == [ok |-> ok, hasType |-> hasType, type |-> type]

Responses ==
  { Response(TRUE, TRUE, "application/json"),
    Response(TRUE, TRUE, "application/json; charset=utf-8"),
    Response(FALSE, TRUE, "application/json"),
    Response(TRUE, TRUE, "text/html"),
    Response(TRUE, FALSE, "") }

\* contentType.includes('application/json')
IncludesJson(type) ==
  type \in {"application/json", "application/json; charset=utf-8"}

\* the names every object inherits from Object.prototype, so that
\* this.domains[d] is truthy for them
ObjectPrototypeKeys ==
  {"constructor", "toString", "toLocaleString", "valueOf", "hasOwnProperty",
   "isPrototypeOf", "propertyIsEnumerable", "__proto__", "__defineGetter__",
   "__defineSetter__", "__lookupGetter__", "__lookupSetter__"}

(***************************************************************************)
(* State.                                                                  *)
(***************************************************************************)
VARIABLES
  edgeScore,      \* this.edgeScore, the displayed edge score
  fragility,      \* this.fragility
  momentum,       \* this.momentum
  regime,         \* this.regime, as the JSON value it was assigned
  domains,        \* this.domains[d].score, the displayed domain scores
  lastUpdate,     \* this.lastUpdate
  simMode,        \* this.simMode: TRUE is SIMULATED, FALSE is LIVE
  apiAvailable,   \* this.apiAvailable
  simLevel,       \* this.simLevel
  targetEdge,     \* this.targetEdge
  targetDomains,  \* this.targetDomains[d].score
  shared,         \* the d for which targetDomains[d] is the object domains[d]
  lastFetch,      \* this.lastFetch
  now,            \* millis()
  inflight,       \* the bag of calls of fetchLive that have not returned
  nfetch,         \* how many calls of fetchLive have been made
  micro,          \* the continuation of tryInitialFetch, when it is queued
  pc,             \* "constructed" until setup has run, then "running"
  ticks,          \* frames drawn
  clicks,         \* clicks made
  everSucceeded,  \* some call of fetchLive has returned data
  clickRun,       \* how many of the latest steps in a row were clicks
  runStart,       \* simLevel when that run of clicks began
  held,           \* the displayed scores when the target last changed, and
                  \* the frames drawn since
  scene,          \* the globals of the sketch that draws from nerve
  last            \* the latest step: what ran and how it ended

nerve ==
  <<edgeScore, fragility, momentum, regime, domains, lastUpdate, simMode,
    apiAvailable, simLevel, targetEdge, targetDomains, shared, lastFetch>>

vars ==
  <<edgeScore, fragility, momentum, regime, domains, lastUpdate, simMode,
    apiAvailable, simLevel, targetEdge, targetDomains, shared, lastFetch,
    now, inflight, nfetch, micro, pc, ticks, clicks, everSucceeded, clickRun,
    runStart, held, scene, last>>

\* a call of fetchLive: where it waits, when it was made and its timer set,
\* whether tryInitialFetch awaits it, and which call it is, counted from the
\* constructor's
Fetch(stage, start, probe, id) ==
  [stage |-> stage, start |-> start, probe |-> probe, id |-> id]

\* a step: the handler that ran, how it ended, whether the mode was LIVE
\* and what lastFetch was when it began, and whether it called fetchLive
Step(op, cause) ==
  [op |-> op, cause |-> cause, live |-> ~simMode, lf |-> lastFetch,
   started |-> nfetch' # nfetch]

NoReturn == [pending |-> FALSE, isNull |-> TRUE, data |-> NullData]
Returned(isNull, data) == [pending |-> TRUE, isNull |-> isNull, data |-> data]

InitDomains == SimDomains(1, 1, 1, 1, 50)

\* the state the constructor leaves: its fields, and tryInitialFetch's call
\* of fetchLive waiting for the response
NerveDataNew ==
  /\ edgeScore = R(1, 10)
  /\ fragility = R(0, 1)
  /\ momentum = R(0, 1)
  /\ regime = JStr("CALM")
  /\ domains = InitDomains
  /\ lastUpdate = JNull
  /\ simMode = TRUE
  /\ apiAvailable = FALSE
  /\ simLevel = 0
  /\ targetEdge = R(1, 10)
  /\ targetDomains = InitDomains
  /\ shared = DomainSet
  /\ lastFetch = 0
  /\ now = 0
  /\ inflight = SetToBag({Fetch("response", 0, TRUE, 1)})
  /\ nfetch = 1
  /\ micro = NoReturn
  /\ pc = "constructed"
  /\ ticks = 0
  /\ clicks = 0
  /\ everSucceeded = FALSE
  /\ clickRun = 0
  /\ runStart = 0
  /\ held = [edge |-> R(1, 10), domains |-> InitDomains, n |-> 0]
  /\ last = [op |-> "constructor", cause |-> "", live |-> FALSE, lf |-> 0,
            started |-> TRUE]

\* the clock sketch as its script is loaded; its own globals only feed the
\* drawing
Init == NerveDataNew /\ scene = [name |-> "clock"]

\* the bookkeeping of held for a step that may assign the target
HeldAfter ==
  IF targetEdge' # targetEdge \/ targetDomains' # targetDomains
  THEN [edge |-> edgeScore, domains |-> domains, n |-> 0]
  ELSE held

\* fetchLive up to its first await: the timer is set and the request sent
fetchLiveCall ==
  inflight (+) SetToBag({Fetch("response", now, FALSE, nfetch + 1)})

\* the calls in flight
Pending == BagToSet(inflight)

\* the timer of a call is armed until clearTimeout, which runs when fetch()
\* resolves
TimerArmed(f) == f.stage = "response"

\* a macrotask (a frame, an input event, a network event, a timer) only runs
\* once setup is done and no continuation is queued
Idle == pc = "running" /\ ~micro.pending

\* this.domains[d] is truthy
KnownKey(d) == d \in DOMAIN domains \/ d \in ObjectPrototypeKeys

\* obj[k] = v, v an object: for k = "__proto__" the assignment replaces the
\* prototype and adds no key
Put(f, k, v) ==
  IF k = "__proto__" THEN f
  ELSE [x \in DOMAIN f \cup {k} |-> IF x = k THEN v ELSE f[x]]

\* the loop without its typeof ... === 'number' test
RECURSIVE domainLoopUnchecked(_, _, _, _)
domainLoopUnchecked(entries, i, td, fresh) ==
  IF i > Len(entries) THEN [td |-> td, fresh |-> fresh, threw |-> FALSE]
  ELSE LET e == entries[i] IN
    IF ~KnownKey(e.key) THEN domainLoopUnchecked(entries, i + 1, td, fresh)
    ELSE IF e.t = "null" THEN [td |-> td, fresh |-> fresh, threw |-> TRUE]
    ELSE domainLoopUnchecked(entries, i + 1, Put(td, e.key, e.score.num),
                             fresh \cup {e.key})

\* for (let d in data.domain_scores) ..., from entry i on: the targets, the
\* keys given a new object, and whether reading .score of null threw
RECURSIVE domainLoop(_, _, _, _)
domainLoop(entries, i, td, fresh) ==
  IF i > Len(entries) THEN [td |-> td, fresh |-> fresh, threw |-> FALSE]
  ELSE LET e == entries[i] IN
    IF ~KnownKey(e.key) THEN domainLoop(entries, i + 1, td, fresh)
    ELSE IF e.t = "null" THEN [td |-> td, fresh |-> fresh, threw |-> TRUE]
    ELSE IF e.score.t = "number"
      THEN domainLoop(entries, i + 1, Put(td, e.key, e.score.num),
                      fresh \cup {e.key})
      ELSE domainLoop(entries, i + 1, td, fresh)

\* typeof data.edge_score !== 'number' || !data.regime
Invalid(data) == data.edge_score.t # "number" \/ ~Truthy(data.regime)

\* a catch block that leaves the mode alone
CatchSimModeKept(sm) == sm

\* the catch block: simMode after it
CatchSimMode(sm) == IF ~sm THEN TRUE ELSE sm

\* fetchLive from the text on: how it ends and the fields it leaves
TextResult(text) ==
  LET p == JSONParse(text)
      data == p.data
      keep(cause) ==
        [cause |-> cause, targetEdge |-> targetEdge, fragility |-> fragility,
         momentum |-> momentum, regime |-> regime, lastUpdate |-> lastUpdate,
         targetDomains |-> targetDomains, shared |-> shared]
  IN  IF p.threw THEN keep("parse")
      ELSE IF data.t = "null" THEN keep("type")
      ELSE IF Invalid(data) THEN keep("schema")
      ELSE IF simMode THEN keep("ok")
      ELSE
        LET loop ==
              IF data.domain_scores.t = "object"
              THEN domainLoop(data.domain_scores.entries, 1, targetDomains, {})
              ELSE [td |-> targetDomains, fresh |-> {}, threw |-> FALSE]
        IN  [cause |-> IF loop.threw THEN "entry" ELSE "ok",
             targetEdge |-> data.edge_score.num,
             fragility |-> OrZero(data.fragility_ratio),
             momentum |-> OrZero(data.momentum),
             regime |-> data.regime,
             lastUpdate |-> data.timestamp,
             targetDomains |-> loop.td,
             shared |-> shared \ loop.fresh]

(***************************************************************************)
(* The calls of fetchLive in flight.                                       *)
(***************************************************************************)
\* fetchLive returns: its caller tryInitialFetch, if any, is queued
Returns(f, cause, data) ==
  /\ inflight' = inflight (-) SetToBag({f})
  /\ micro' = IF f.probe THEN Returned(cause # "ok", data) ELSE micro
  /\ everSucceeded' = (everSucceeded \/ cause = "ok")
  /\ clickRun' = 0
  /\ UNCHANGED <<edgeScore, domains, simLevel, lastFetch, now, nfetch, pc,
                 ticks, clicks, runStart, scene>>

\* the catch block of fetchLive, entered with nothing assigned yet
Catch(f, cause) ==
  /\ apiAvailable' = FALSE
  /\ simMode' = CatchSimMode(simMode)
  /\ Returns(f, cause, NullData)
  /\ UNCHANGED <<fragility, momentum, regime, lastUpdate, targetEdge,
                 targetDomains, shared, held>>
  /\ last' = Step("fetchLive", cause)

\* fetch() or resp.text() rejects: the network failed
fetchLiveReject(f) ==
  /\ Idle
  /\ f \in Pending
  /\ Catch(f, "network")

\* the timer set by fetchLive fires while fetch() is pending
fetchLiveAbort(f) ==
  /\ Idle
  /\ f \in Pending
  /\ f.stage = "response"
  /\ now - f.start >= fetchTimeout
  /\ Catch(f, "abort")

\* fetch() resolves before the timer fires: the timer is cleared, the status
\* and the content type are checked, and resp.text() is awaited
fetchLiveResponse(f, resp) ==
  /\ Idle
  /\ f \in Pending
  /\ f.stage = "response"
  /\ now - f.start < fetchTimeout
  /\ IF ~resp.ok THEN Catch(f, "http")
     ELSE IF ~resp.hasType \/ ~IncludesJson(resp.type)
       THEN Catch(f, "content-type")
     ELSE /\ inflight' = (inflight (-) SetToBag({f}))
                          (+) SetToBag({Fetch("text", f.start, f.probe, f.id)})
          /\ clickRun' = 0
          /\ UNCHANGED <<nerve, now, nfetch, micro, pc, ticks, clicks,
                         everSucceeded, runStart, held, scene>>
          /\ last' = Step("response", "")

\* resp.text() resolves: the text is parsed, validated and, in LIVE, applied
fetchLiveText(f, text) ==
  /\ Idle
  /\ f \in Pending
  /\ f.stage = "text"
  /\ LET r == TextResult(text) IN
       /\ targetEdge' = r.targetEdge
       /\ fragility' = r.fragility
       /\ momentum' = r.momentum
       /\ regime' = r.regime
       /\ lastUpdate' = r.lastUpdate
       /\ targetDomains' = r.targetDomains
       /\ shared' = r.shared
       /\ apiAvailable' = (r.cause = "ok")
       /\ simMode' = IF r.cause = "ok" THEN simMode ELSE CatchSimMode(simMode)
       /\ Returns(f, r.cause, JSONParse(text).data)
       /\ held' = HeldAfter
       /\ last' = Step("fetchLive", r.cause)

\* the test with `===` for `!==`
ProbeOkInverted(ret) == ~ret.isNull /\ ret.data.edge_score.t = "undefined"

\* a continuation that does not test what fetchLive returned
ProbeOkAlways(ret) == TRUE

\* data && data.edge_score !== undefined
ProbeOk(ret) == ~ret.isNull /\ ret.data.edge_score.t # "undefined"

\* tryInitialFetch resumes with what fetchLive returned
tryInitialFetch ==
  /\ micro.pending
  /\ IF ProbeOk(micro)
       THEN apiAvailable' = TRUE /\ simMode' = FALSE
       ELSE UNCHANGED <<apiAvailable, simMode>>
  /\ micro' = NoReturn
  /\ clickRun' = 0
  /\ UNCHANGED <<edgeScore, fragility, momentum, regime, domains, lastUpdate,
                 simLevel, targetEdge, targetDomains, shared, lastFetch, now,
                 inflight, nfetch, pc, ticks, clicks, everSucceeded,
                 runStart, held, scene>>
  /\ last' = Step("tryInitialFetch", IF micro.isNull THEN "null" ELSE "data")

(***************************************************************************)
(* The handlers of the scene.                                              *)
(***************************************************************************)
\* setup, after `new NerveData()`: nerve.fetchLive()
setup ==
  /\ pc = "constructed"
  /\ pc' = "running"
  /\ inflight' = fetchLiveCall
  /\ nfetch' = nfetch + 1
  /\ last' = Step("setup", "")
  /\ clickRun' = 0
  /\ UNCHANGED <<nerve, now, micro, ticks, clicks, everSucceeded, runStart,
                 held>>

\* the guard with `>=` for `>`
PollDueInclusive(sm, t, lf) == ~sm /\ t - lf >= fetchInterval

\* !this.simMode && millis() - this.lastFetch > this.fetchInterval
PollDue(sm, t, lf) == ~sm /\ t - lf > fetchInterval

\* draw: nerve.update()
update ==
  /\ Idle
  /\ ticks < MaxTicks
  /\ PollDue(simMode, now, lastFetch) => nfetch < MaxFetches
  /\ ticks' = ticks + 1
  /\ edgeScore' = lerp(edgeScore, targetEdge, lerpSpeed)
  /\ domains' = [d \in DOMAIN domains |->
                   IF d \in DOMAIN targetDomains
                   THEN lerp(domains[d], targetDomains[d], lerpSpeed)
                   ELSE domains[d]]
  /\ targetDomains' = [d \in DOMAIN targetDomains |->
                         IF d \in shared THEN domains'[d]
                         ELSE targetDomains[d]]
  /\ IF PollDue(simMode, now, lastFetch)
       THEN /\ lastFetch' = now
            /\ inflight' = fetchLiveCall
            /\ nfetch' = nfetch + 1
       ELSE UNCHANGED <<lastFetch, inflight, nfetch>>
  /\ last' = Step("update", "")
  /\ clickRun' = 0
  /\ UNCHANGED <<fragility, momentum, regime, lastUpdate, simMode,
                 apiAvailable, simLevel, targetEdge, shared, now, micro, pc,
                 clicks, everSucceeded, runStart>>
  /\ held' = [held EXCEPT !.n = @ + 1]

\* a level that stops at the last entry instead of wrapping
LevelOfClamped(level) ==
  IF level >= Len(simLevels) THEN Len(simLevels) - 1 ELSE level

\* this.simLevel = level % this.simLevels.length
LevelOf(level) == level % Len(simLevels)

\* setSimLevel(level)
setSimLevel(level) ==
  LET sim == SimAt(LevelOf(level)) IN
  /\ simLevel' = LevelOf(level)
  /\ simMode' = TRUE
  /\ targetEdge' = sim.edge
  /\ regime' = JStr(sim.regime)
  /\ fragility' = sim.fragility
  /\ targetDomains' = [d \in DOMAIN targetDomains |->
                         IF d \in DOMAIN sim.domains THEN sim.domains[d]
                         ELSE targetDomains[d]]
  /\ shared' = shared \ DOMAIN sim.domains

\* nextSimLevel()
nextSimLevel == setSimLevel(simLevel + 1)

\* mousePressed: nerve.simMode = true; nerve.nextSimLevel()
mousePressed ==
  /\ Idle
  /\ nextSimLevel
  /\ clickRun' = IF clickRun = Len(simLevels) THEN 1 ELSE clickRun + 1
  /\ runStart' = IF clickRun \in {0, Len(simLevels)} THEN simLevel
                 ELSE runStart
  /\ UNCHANGED <<edgeScore, momentum, domains, lastUpdate, apiAvailable,
                 lastFetch, now, inflight, nfetch, micro, pc, ticks,
                 everSucceeded, scene>>
  /\ held' = HeldAfter
  /\ last' = Step("mousePressed", "")

\* a toggle that does not look at apiAvailable
ToggleAlways(api) == TRUE

\* if (this.apiAvailable)
ToggleAllowed(api) == api

\* toggleSimMode()
toggleSimMode ==
  /\ IF ToggleAllowed(apiAvailable)
       THEN /\ simMode' = ~simMode
            /\ IF ~simMode'
                 THEN /\ nfetch < MaxFetches
                      /\ inflight' = fetchLiveCall
                      /\ nfetch' = nfetch + 1
                 ELSE UNCHANGED <<inflight, nfetch>>
       ELSE UNCHANGED <<simMode, inflight, nfetch>>
  /\ last' = Step("keyPressed", "")

\* keyPressed with key ' ': nerve.toggleSimMode()
keyPressed ==
  /\ Idle
  /\ toggleSimMode
  /\ clickRun' = 0
  /\ UNCHANGED <<edgeScore, fragility, momentum, regime, domains, lastUpdate,
                 apiAvailable, simLevel, targetEdge, targetDomains, shared,
                 lastFetch, now, micro, pc, ticks, clicks, everSucceeded,
                 runStart, held, scene>>

\* time passes between two events
elapse ==
  /\ Idle
  /\ now + ClockStep <= MaxTime
  /\ now' = now + ClockStep
  /\ clickRun' = 0
  /\ UNCHANGED <<nerve, inflight, nfetch, micro, pc, ticks, clicks,
                 everSucceeded, runStart, held, scene>>
  /\ last' = Step("elapse", "")

Next ==
  \/ (setup /\ UNCHANGED scene)
  \/ (update /\ UNCHANGED scene)
  \/ (clicks < MaxClicks /\ mousePressed /\ clicks' = clicks + 1)
  \/ keyPressed
  \/ elapse
  \/ tryInitialFetch
  \/ \E f \in Pending : fetchLiveReject(f)
  \/ \E f \in Pending : fetchLiveAbort(f)
  \/ \E f \in Pending, resp \in Responses : fetchLiveResponse(f, resp)
  \/ \E f \in Pending, text \in TextsOfNext : fetchLiveText(f, text)

Spec == Init /\ [][Next]_vars

\* the ladder walked all the way round: clicks without limit, at one reading
\* of the clock and with no frame drawn, the endpoint sending any body
NextLadder ==
  \/ (setup /\ UNCHANGED scene)
  \/ (mousePressed /\ UNCHANGED clicks)
  \/ keyPressed
  \/ tryInitialFetch
  \/ \E f \in Pending : fetchLiveReject(f)
  \/ \E f \in Pending, resp \in Responses : fetchLiveResponse(f, resp)
  \/ \E f \in Pending, text \in AnyTexts : fetchLiveText(f, text)

SpecLadder == Init /\ [][NextLadder]_vars

\* the space bar left alone: frames, clicks and the answers of the network,
\* at one reading of the clock
NextClicks ==
  \/ (setup /\ UNCHANGED scene)
  \/ (update /\ UNCHANGED scene)
  \/ (clicks < MaxClicks /\ mousePressed /\ clicks' = clicks + 1)
  \/ tryInitialFetch
  \/ \E f \in Pending : fetchLiveReject(f)
  \/ \E f \in Pending, resp \in Responses : fetchLiveResponse(f, resp)
  \/ \E f \in Pending, text \in Texts : fetchLiveText(f, text)

SpecClicks == Init /\ [][NextClicks]_vars

\* the order in which the calls of fetchLive were started
StartOrder(f) == f.id

\* an endpoint whose snapshot moves on between the calls: every call reads
\* an edge score of its own, none of them a preset of the ladder
SnapshotAt(f) ==
  Payload(JNum(R(40 + f.id, 100)), JStr("ELEVATED"), JNum(R(1, 2)),
          JUndefined, JStr("t2"), Scores(<<Entry("Climate", JNum(R(1, 5)))>>))

\* the calls that return in this step: one call fewer is in flight, and it
\* is this one
Resolved ==
  { f \in BagToSet(inflight) :
      /\ BagCardinality(inflight') < BagCardinality(inflight)
      /\ CopiesIn(f, inflight') < CopiesIn(f, inflight) }

\* every call answered 200 application/json with the snapshot of its start:
\* frames, the space bar, the clock and the answers in any order
NextRace ==
  \/ (setup /\ UNCHANGED scene)
  \/ (update /\ UNCHANGED scene)
  \/ keyPressed
  \/ elapse
  \/ tryInitialFetch
  \/ \E f \in Pending : fetchLiveAbort(f)
  \/ \E f \in Pending :
       fetchLiveResponse(f, Response(TRUE, TRUE, "application/json"))
  \/ \E f \in Pending : fetchLiveText(f, Text(TRUE, SnapshotAt(f)))

SpecRace == Init /\ [][NextRace]_vars

(***************************************************************************)
(* The pulse sketch: a NerveData drawn as a scrolling trace.               *)
(***************************************************************************)
maxHistory == 800

\* windowWidth and windowHeight, in samples: a landscape and a portrait window
Viewports == {<<800, 600>>, <<390, 844>>}

\* what generateHeartbeat returns, in samples of its range
BeatValues == {R(-1, 5), R(1, 1)}

\* what p5's noise() returns, in samples of its range
NoiseValues == {R(0, 1), R(1, 2)}

RatLess(a, b) == ~RatLeq(b, a)

\* p5's map(n, start1, stop1, start2, stop2) for start1 = 0, stop1 = 1
map01(v, start2, stop2) ==
  RatAdd(RatMul(v, R(stop2 - start2, 1)), R(start2, 1))

\* a push that never removes a sample
pushHistoryUnbounded(h, v) == Append(h, v)

\* h.push(v); if (h.length > maxHistory) h.shift();
pushHistory(h, v) ==
  LET pushed == Append(h, v) IN
  IF Len(pushed) > maxHistory THEN Tail(pushed) ELSE pushed

\* the globals of the sketch as its script is loaded, in a window vp
PulseGlobals(vp) ==
  [name |-> "pulse", windowWidth |-> vp[1], windowHeight |-> vp[2],
   width |-> 0, height |-> 0, trailBuffer |-> <<0, 0>>,
   history |-> << >>, domainHistories |-> [d \in {} |-> << >>],
   phase |-> R(0, 1), beatPhase |-> R(0, 1), lastBeat |-> 0,
   beatValue |-> R(0, 1), noise |-> R(0, 1)]

\* the script loaded in the landscape window
InitPulse ==
  /\ NerveDataNew
  /\ scene = PulseGlobals(<<800, 600>>)

\* setup: the canvas, nerve.fetchLive(), the trail buffer of the size of the
\* canvas, then the histories are filled with maxHistory samples
setupPulse ==
  /\ scene.name = "pulse"
  /\ setup
  /\ scene' = [scene EXCEPT
                 !.width = scene.windowWidth, !.height = scene.windowHeight,
                 !.trailBuffer = <<scene.windowWidth, scene.windowHeight>>,
                 !.history = [i \in 1..maxHistory |-> R(1, 10)],
                 !.domainHistories =
                   [d \in DOMAIN domains |->
                      [i \in 1..maxHistory |-> R(1, 100)]]]

\* draw, up to the last push: nerve.update(), the beat, one sample pushed
\* on each history. beatValue is what generateHeartbeat returns and nz what
\* noise() returns in this frame.
drawPulse(beatValue, nz) ==
  /\ scene.name = "pulse"
  /\ update
  /\ LET beatInterval == map01(edgeScore', 3000, 400)
         timeSinceBeat == now - scene.lastBeat
         beat == RatLess(beatInterval, R(timeSinceBeat, 1))
     IN  scene' =
           [scene EXCEPT
              !.phase = RatAdd(@, R(1, 100)),
              !.lastBeat = IF beat THEN now ELSE @,
              !.beatPhase = RatMul(IF beat THEN R(1, 1) ELSE @, R(92, 100)),
              !.beatValue = beatValue,
              !.noise = nz,
              !.history =
                pushHistory(@, RatAdd(edgeScore',
                                      RatMul(RatMul(beatValue, edgeScore'),
                                             R(1, 2)))),
              !.domainHistories =
                [d \in DOMAIN domains |->
                   pushHistory(@[d],
                     RatAdd(RatAdd(domains'[d],
                                   RatMul(RatMul(beatValue, domains'[d]),
                                          R(4, 10))),
                            RatMul(nz, R(5, 100))))]]

\* the pulse sketch with no answer from the network, so that every call is
\* aborted at its timeout, and the space bar left alone: frames, clicks and
\* the clock
NextPulse ==
  \/ setupPulse
  \/ \E beatValue \in BeatValues, nz \in NoiseValues : drawPulse(beatValue, nz)
  \/ (clicks < MaxClicks /\ mousePressed /\ clicks' = clicks + 1)
  \/ elapse
  \/ \E f \in Pending : fetchLiveAbort(f)
  \/ tryInitialFetch

SpecPulse == InitPulse /\ [][NextPulse]_vars

(***************************************************************************)
(* The fracture sketch: how far one fragment has come loose.               *)
(***************************************************************************)
\* currentFracture is sampled in steps of 1 / FractureSteps
FractureSteps == 10

\* currentFracture follows nerve.edgeScore; the samples run a little past
\* both ends of [0, 1]
FractureGrid == { R(k, FractureSteps) : k \in (-2)..(FractureSteps + 2) }

\* crackDelay: random(0.2, 0.8), in samples of [0.2, 0.8)
CrackDelays ==
  {R(1, 5), R(1, 4), R(2, 5), R(1, 2), R(3, 5), R(3, 4), R(79, 100)}

\* a / b for b # 0
RatDiv(a, b) ==
  IF b.n > 0 THEN RatMul(a, [n |-> b.d, d |-> b.n])
  ELSE RatMul(a, [n |-> -b.d, d |-> -b.n])

\* max(a, b)
max(a, b) == IF RatLeq(a, b) THEN b ELSE a

\* p5's constrain(n, low, high)
constrain(n, low, high) ==
  IF RatLess(n, low) THEN low ELSE IF RatLess(high, n) THEN high ELSE n

\* an easing with pow(t, 3) for pow(1 - t, 3)
easeOutCubicOfT(t) == RatSub(R(1, 1), RatMul(t, RatMul(t, t)))

\* easeOutCubic(t) = 1 - pow(1 - t, 3)
easeOutCubic(t) ==
  LET u == RatSub(R(1, 1), t) IN RatSub(R(1, 1), RatMul(u, RatMul(u, u)))

\* the fractureAmount drawFragments computes for a fragment
fractureAmount(currentFracture, crackDelay) ==
  easeOutCubic(
    constrain(max(R(0, 1),
                  RatDiv(RatSub(currentFracture, crackDelay),
                         RatSub(R(1, 1), crackDelay))),
              R(0, 1), R(1, 1)))

\* one fragment with its crackDelay, before the first frame
InitFracture ==
  /\ NerveDataNew
  /\ scene \in { [name |-> "fracture", crackDelay |-> c, drawn |-> FALSE,
                   currentFracture |-> R(0, 1), fractureAmount |-> R(0, 1)] :
                   c \in CrackDelays }

\* drawFragments for that fragment, in a frame where currentFracture is cf
drawFragments(cf) ==
  /\ scene' = [scene EXCEPT !.drawn = TRUE, !.currentFracture = cf,
                            !.fractureAmount =
                              fractureAmount(cf, scene.crackDelay)]
  /\ UNCHANGED <<nerve, now, inflight, nfetch, micro, pc, ticks, clicks,
                 everSucceeded, clickRun, runStart, held, last>>

NextFracture == \E cf \in FractureGrid : drawFragments(cf)

SpecFracture == InitFracture /\ [][NextFracture]_vars

(***************************************************************************)
(* The pulse sketch: the waveform of one beat.                             *)
(***************************************************************************)
\* timeSinceBeat is sampled in steps of BeatStep ms, up to MaxBeatSteps steps
BeatStep == 150
MaxBeatSteps == 22

\* nerve.edgeScore in the frame drawn: the ends and the middle of [0, 1], and
\* a value past 1, which fetchLive lets through (C18)
BeatEdgeScores == {R(0, 1), R(1, 2), R(1, 1), R(3, 2)}

\* JavaScript's t % 1: the remainder has the sign of t
JsMod1(t) ==
  IF t.n >= 0 THEN R(t.n % t.d, t.d) ELSE R(-((-t.n) % t.d), t.d)

\* pow((t - c) * k, 2), the exponent of one term of the waveform
BeatExponent(t, c, k) ==
  LET x == RatMul(RatSub(t, c), R(k, 1)) IN RatMul(x, x)

\* generateHeartbeat(t, intensity) without its noise term. The value is
\*   0.15 exp(-x1) - 0.2 exp(-x2) + 1.0 exp(-x3) - 0.3 exp(-x4)
\*   + 0.25 exp(-x5),
\* and what is kept of it is <<x1, ..., x5>>, which determines it.
generateHeartbeat(t) ==
  LET u == JsMod1(t) IN
  << BeatExponent(u, R(1, 10), 20), BeatExponent(u, R(1, 4), 30),
     BeatExponent(u, R(3, 10), 25), BeatExponent(u, R(35, 100), 30),
     BeatExponent(u, R(55, 100), 12) >>

\* a frame about to be drawn: the edge score and the time since the last beat
InitBeat ==
  /\ NerveDataNew
  /\ scene \in { [name |-> "pulse", called |-> FALSE, edgeScore |-> e,
                   timeSinceBeat |-> k * BeatStep, t |-> R(0, 1),
                   beatValue |-> << >>, beatValueNext |-> << >>] :
                   e \in BeatEdgeScores, k \in 0..MaxBeatSteps }

\* draw, from the beat timing to generateHeartbeat: the phase passed is
\* timeSinceBeat / beatInterval; the waveform is also taken one period later
drawBeat ==
  /\ ~scene.called
  /\ LET beatInterval == map01(scene.edgeScore, 3000, 400)
         t == RatDiv(R(scene.timeSinceBeat, 1), beatInterval)
     IN  scene' = [scene EXCEPT
                     !.called = TRUE, !.t = t,
                     !.beatValue = generateHeartbeat(t),
                     !.beatValueNext = generateHeartbeat(RatAdd(t, R(1, 1)))]
  /\ UNCHANGED <<nerve, now, inflight, nfetch, micro, pc, ticks, clicks,
                 everSucceeded, clickRun, runStart, held, last>>

NextBeat == drawBeat

SpecBeat == InitBeat /\ [][NextBeat]_vars

(***************************************************************************)
(* The sketches' own state: canvas, layout, pools and buffers.             *)
(***************************************************************************)
\* what the calls of random() of one setup or one frame return, as the
\* number of one of a few sample sequences
Seeds == {0, 1}

cellSize == 20
maxParticles == 2000

\* a particle's life and decay are kept in units of 1 / LifeUnit
LifeUnit == 10000

\* ceil(a / b) for a >= 0 and b > 0
ceil(a, b) == (a + b - 1) \div b

\* createParticle() for the i-th particle: x in [0, width), y in [0, height),
\* life in [0.5, 1), decay in [0.0005, 0.002)
createParticle(width, height, i, seed) ==
  [x |-> (37 * i + 211 * seed) % width,
   y |-> (53 * i + 97 * seed) % height,
   life |-> 5000 + ((13 * i + 1999 * seed) % 5000),
   decay |-> 5 + ((i + 7 * seed) % 15)]

\* how far the flow carries a particle in one frame, in samples; the second
\* one has the sinking of a deep scene in it
Flows == {<<3, -2>>, <<-4, 6>>}

\* the globals of the ocean sketch as its script is loaded, in a window vp;
\* cols, rows and flowField are undefined until setup
OceanGlobals(vp) ==
  [name |-> "ocean", windowWidth |-> vp[1], windowHeight |-> vp[2],
   width |-> 0, height |-> 0, cols |-> 0, rows |-> 0, flowField |-> 0,
   particles |-> << >>]

\* setup of the ocean sketch: the canvas, nerve.fetchLive(), the grid of the
\* flow field and maxParticles particles
setupOcean(seed) ==
  /\ scene.name = "ocean"
  /\ setup
  /\ LET width == scene.windowWidth
         height == scene.windowHeight
         cols == ceil(width, cellSize) + 1
         rows == ceil(height, cellSize) + 1
     IN  scene' = [scene EXCEPT
                     !.width = width, !.height = height,
                     !.cols = cols, !.rows = rows, !.flowField = cols * rows,
                     !.particles =
                       [i \in 1..maxParticles |->
                          createParticle(width, height, i, seed)]]

\* updateAndDrawParticles: every particle is carried by the flow and loses
\* decay of its life; one that left the canvas or ran out of life is
\* overwritten in place with createParticle()
updateAndDrawParticles(ps, width, height, flow, seed) ==
  [i \in 1..Len(ps) |->
     LET p == [ps[i] EXCEPT !.x = @ + flow[1], !.y = @ + flow[2],
                            !.life = @ - ps[i].decay]
     IN  IF \/ p.x < 0 \/ p.x > width
            \/ p.y < 0 \/ p.y > height
            \/ p.life <= 0
         THEN createParticle(width, height, i, seed)
         ELSE p]

\* draw of the ocean sketch: nerve.update(), then the particles (what
\* random() returns for a respawn is a sample that depends on the frame)
drawOcean(flow) ==
  /\ scene.name = "ocean"
  /\ update
  /\ scene' = [scene EXCEPT
                 !.particles =
                   updateAndDrawParticles(@, scene.width, scene.height,
                                          flow, ticks)]

\* what a resize leaves alone
ResizeKeeps == <<nerve, now, inflight, nfetch, micro, pc, ticks, clicks,
                 everSucceeded, clickRun, runStart, held>>

\* a resize that also starts the pool again
windowResizedOceanRespawning(vp) ==
  /\ scene.name = "ocean"
  /\ pc = "running"
  /\ scene' = [scene EXCEPT
                 !.windowWidth = vp[1], !.windowHeight = vp[2],
                 !.width = vp[1], !.height = vp[2],
                 !.cols = ceil(vp[1], cellSize) + 1,
                 !.rows = ceil(vp[2], cellSize) + 1,
                 !.flowField =
                   (ceil(vp[1], cellSize) + 1) * (ceil(vp[2], cellSize) + 1),
                 !.particles =
                   [i \in 1..maxParticles |->
                      createParticle(vp[1], vp[2], i, 0)]]
  /\ UNCHANGED ResizeKeeps
  /\ last' = Step("windowResized", "")

\* windowResized of the ocean sketch, the window now being vp
windowResizedOcean(vp) ==
  /\ scene.name = "ocean"
  /\ pc = "running"
  /\ scene' = [scene EXCEPT
                 !.windowWidth = vp[1], !.windowHeight = vp[2],
                 !.width = vp[1], !.height = vp[2],
                 !.cols = ceil(vp[1], cellSize) + 1,
                 !.rows = ceil(vp[2], cellSize) + 1,
                 !.flowField =
                   (ceil(vp[1], cellSize) + 1) * (ceil(vp[2], cellSize) + 1)]
  /\ UNCHANGED ResizeKeeps
  /\ last' = Step("windowResized", "")

numFragments == 120
numAmbient == 200
maxOrbParticles == 500

\* crackDelay: random(0.2, 0.8), the k-th of a few samples of [0.2, 0.8)
CrackDelayAt(k) ==
  <<R(1, 5), R(1, 4), R(2, 5), R(1, 2), R(3, 5), R(3, 4), R(79, 100)>>[k]

\* the domain of the i-th fragment (i from 0): the fifth of the turn that
\* its golden-spiral angle PI (1 + sqrt(5)) i + PI falls in
domainIdx(i) == (5 * ((618034 * i + 500000) % 1000000)) \div 1000000

\* min(a, b) of two integers
min(a, b) == IF a <= b THEN a ELSE b

\* which of the separating fragments win the draw of random() that lets
\* them emit a particle in a frame: none, the first of them only, or all
EmitChoices == {"none", "first", "all"}

\* positions and speeds of the ambient particles are counted in units of
\* 1 / Px of a pixel, angles in units of 1 / Rad of a radian
Px == 1000000
Rad == 1000000

\* phase += 0.008
phaseStep == 8000

\* HALF_PI, to the unit of angle
HalfPi == 1570796

\* m quarter turns (m * 1.5707963268), to the nearest unit of angle
quarterTurns(m) == m * HalfPi + (m * 3268 + 5000) \div 10000

\* the globals of the fracture sketch as its script is loaded, in a window vp
FractureGlobals(vp) ==
  [name |-> "fracture", windowWidth |-> vp[1], windowHeight |-> vp[2],
   width |-> 0, height |-> 0, sphereRadius |-> R(0, 1),
   fragments |-> << >>, orbParticles |-> << >>, ambientParticles |-> << >>,
   currentFracture |-> R(0, 1), phase |-> 0]

\* the loop of setup that makes the fragments: crackDelay a sample of
\* random(0.2, 0.8), domain from the angle of the fragment
newFragments(seed) ==
  [i \in 1..numFragments |->
     [crackDelay |-> CrackDelayAt(((i + 3 * seed) % 7) + 1),
      domain |-> domainIdx(i - 1)]]

\* the loop of setup that makes the ambient particles: x in
\* [-width, 2 width), y in [-height, 2 height), vx and vy in [-0.3, 0.3) and
\* phase, a sample of random(TWO_PI), in quarter turns
newAmbientParticles(width, height, seed) ==
  [i \in 1..numAmbient |->
     [x |-> (Px \div 10) * (((371 * i + 53 * seed) % (30 * width))
                              - 10 * width),
      y |-> (Px \div 10) * (((593 * i + 29 * seed) % (30 * height))
                              - 10 * height),
      vx |-> (Px \div 10) * (((i + seed) % 6) - 3),
      vy |-> (Px \div 10) * (((3 * i + seed) % 6) - 3),
      phase |-> (i + 2 * seed) % 4]]

\* setup of the fracture sketch: the canvas, nerve.fetchLive(), the radius,
\* numFragments fragments and the ambient particles
setupFracture(seed) ==
  /\ scene.name = "fracture"
  /\ setup
  /\ LET width == scene.windowWidth
         height == scene.windowHeight
     IN  scene' = [scene EXCEPT
                     !.width = width, !.height = height,
                     !.sphereRadius = R(min(width, height), 4),
                     !.fragments = newFragments(seed),
                     !.ambientParticles =
                       newAmbientParticles(width, height, seed)]

\* the fragments that may emit in a frame: fractureAmount > 0.1 (and then
\* random() < fractureAmount * 0.05 is possible)
Emitters(fragments, currentFracture) ==
  LET separating == { c \in CrackDelays :
                        RatLess(R(1, 10), fractureAmount(currentFracture, c)) }
  IN  { i \in 1..Len(fragments) : fragments[i].crackDelay \in separating }

\* orbParticles.push({... life: 1, decay: random(0.005, 0.02) ...}) for the
\* fragments that emit, in the order of the loop over the fragments
pushOrbParticles(ps, emitting, seed) ==
  LET order == SelectSeq([i \in 1..numFragments |-> i],
                         LAMBDA i : i \in emitting)
  IN  ps \o [k \in 1..Len(order) |->
               [life |-> LifeUnit,
                decay |-> 50 + ((17 * order[k] + 31 * seed) % 150)]]

\* the loop over orbParticles: life -= decay, and a particle with
\* life <= 0 is spliced out
updateOrbParticles(ps) ==
  SelectSeq([i \in 1..Len(ps) |-> [ps[i] EXCEPT !.life = @ - ps[i].decay]],
            LAMBDA p : p.life > 0)

\* if (orbParticles.length > 500) orbParticles.splice(0, length - 500)
capOrbParticles(ps) ==
  IF Len(ps) > maxOrbParticles
  THEN SubSeq(ps, Len(ps) - maxOrbParticles + 1, Len(ps))
  ELSE ps

\* sin(e) * 0.1 of a small angle e (within 0.04 rad of 0), cut to the unit
\* of position towards 0: e / 10 less the cubic term, which is never taken
\* for nothing, so that the value lies below e / 10 as the sine does
RECURSIVE wobbleSin(_)
wobbleSin(e) ==
  IF e < 0 THEN -wobbleSin(-e)
  ELSE IF e = 0 THEN 0
  ELSE LET t == e \div 100
           cubic == (t * t * t) \div 6000000 + 1
       IN  (e - cubic) \div 10

\* cos(e) * 0.1 of a small angle e, cut to the unit of position towards 0:
\* below a tenth of a pixel for every e but 0, as the cosine is
wobbleCos(e) ==
  IF e = 0 THEN Px \div 10
  ELSE Px \div 10 - (e * e + 19999999) \div 20000000

\* the whole number of quarter turns nearest to an angle
nearestQuarter(angle) == (2 * angle + HalfPi) \div (2 * HalfPi)

\* sin(angle + p.phase) * 0.1, p.phase being q quarter turns: the angle is
\* a whole number of quarter turns and a small rest
wobbleX(angle, q) ==
  LET m == nearestQuarter(angle)
      e == angle - quarterTurns(m)
      k == (m + q) % 4
  IN  CASE k = 0 -> wobbleSin(e)
        [] k = 1 -> wobbleCos(e)
        [] k = 2 -> -wobbleSin(e)
        [] k = 3 -> -wobbleCos(e)

\* cos(angle + p.phase) * 0.1
wobbleY(angle, q) ==
  LET m == nearestQuarter(angle)
      e == angle - quarterTurns(m)
      k == (m + q) % 4
  IN  CASE k = 0 -> wobbleCos(e)
        [] k = 1 -> -wobbleSin(e)
        [] k = 2 -> -wobbleCos(e)
        [] k = 3 -> wobbleSin(e)

\* drawAmbientParticles: each particle drifts, wobbles by up to a tenth of a
\* pixel and wraps 50 pixels outside the canvas
drawAmbientParticles(ps, width, height, phase) ==
  [i \in 1..Len(ps) |->
     LET x1 == ps[i].x + ps[i].vx + wobbleX(phase, ps[i].phase)
         x2 == IF x1 < -50 * Px THEN (width + 50) * Px ELSE x1
         x3 == IF x2 > (width + 50) * Px THEN -50 * Px ELSE x2
         y1 == ps[i].y + ps[i].vy + wobbleY((7 * phase) \div 10, ps[i].phase)
         y2 == IF y1 < -50 * Px THEN (height + 50) * Px ELSE y1
         y3 == IF y2 > (height + 50) * Px THEN -50 * Px ELSE y2
     IN  [ps[i] EXCEPT !.x = x3, !.y = y3]]

\* draw of the fracture sketch: nerve.update(), phase, currentFracture, the
\* ambient particles, and in drawFragments the particles emitted (their
\* decay a sample that depends on the fragment and the frame), aged,
\* removed and capped
drawFracture(emit) ==
  /\ scene.name = "fracture"
  /\ update
  /\ LET phase == scene.phase + phaseStep
         currentFracture == lerp(scene.currentFracture, edgeScore', R(15, 1000))
         able == Emitters(scene.fragments, currentFracture)
         first == { i \in able : \A j \in able : i <= j }
         emitting == IF emit = "none" THEN {}
                     ELSE IF emit = "first" THEN first ELSE able
     IN  scene' = [scene EXCEPT
                     !.phase = phase,
                     !.currentFracture = currentFracture,
                     !.ambientParticles =
                       drawAmbientParticles(@, scene.width, scene.height,
                                            phase),
                     !.orbParticles =
                       capOrbParticles(updateOrbParticles(
                         pushOrbParticles(@, emitting, ticks)))]

\* windowResized of the fracture sketch, the window now being vp
windowResizedFracture(vp) ==
  /\ scene.name = "fracture"
  /\ pc = "running"
  /\ scene' = [scene EXCEPT
                 !.windowWidth = vp[1], !.windowHeight = vp[2],
                 !.width = vp[1], !.height = vp[2],
                 !.sphereRadius = R(min(vp[1], vp[2]), 4)]
  /\ UNCHANGED ResizeKeeps
  /\ last' = Step("windowResized", "")

\* windowResized of the pulse sketch, the window now being vp: the canvas,
\* and a new trail buffer of its size
windowResizedPulse(vp) ==
  /\ scene.name = "pulse"
  /\ pc = "running"
  /\ scene' = [scene EXCEPT
                 !.windowWidth = vp[1], !.windowHeight = vp[2],
                 !.width = vp[1], !.height = vp[2],
                 !.trailBuffer = <<vp[1], vp[2]>>]
  /\ UNCHANGED ResizeKeeps
  /\ last' = Step("windowResized", "")

\* the rungs of the ladder the fracture sketch is found settled on
SettledLevels == {3, 7}

\* the reconciler long after the page was loaded with no endpoint and the
\* ladder clicked to a rung: both calls of fetchLive have failed, and the
\* displayed scores have closed on the targets of the rung. Frames and
\* clicks are counted from here.
NerveDataSettled(level) ==
  LET sim == SimAt(level) IN
  /\ edgeScore = sim.edge
  /\ fragility = sim.fragility
  /\ momentum = R(0, 1)
  /\ regime = JStr(sim.regime)
  /\ domains = sim.domains
  /\ lastUpdate = JNull
  /\ simMode = TRUE
  /\ apiAvailable = FALSE
  /\ simLevel = level
  /\ targetEdge = sim.edge
  /\ targetDomains = sim.domains
  /\ shared = {}
  /\ lastFetch = 0
  /\ now = MaxTime
  /\ inflight = EmptyBag
  /\ nfetch = 2
  /\ micro = NoReturn
  /\ pc = "running"
  /\ ticks = 0
  /\ clicks = 0
  /\ everSucceeded = FALSE
  /\ clickRun = 0
  /\ runStart = 0
  /\ held = [edge |-> sim.edge, domains |-> sim.domains, n |-> 0]
  /\ last = [op |-> "update", cause |-> "", live |-> FALSE, lf |-> 0,
            started |-> FALSE]

\* the frames drawn by then: enough for the displayed scores and
\* currentFracture to have closed on the target, phase being 31.416
SettledFrames == 3927

\* the ambient particles after those frames: every frame has wrapped them
\* into the band of 50 pixels around the canvas
settledAmbientParticles(width, height, seed) ==
  LET ps == newAmbientParticles(width, height, seed) IN
  [i \in 1..numAmbient |->
     [ps[i] EXCEPT
        !.x = (Px \div 10) * (((371 * i + 53 * seed) % (10 * (width + 100)))
                                - 500),
        !.y = (Px \div 10) * (((593 * i + 29 * seed) % (10 * (height + 100)))
                                - 500)]]

\* the globals of the fracture sketch then, in a window vp: set up,
\* SettledFrames frames drawn, and currentFracture closed on nerve.edgeScore
FractureSettled(vp, seed, level) ==
  [FractureGlobals(vp) EXCEPT
     !.width = vp[1], !.height = vp[2],
     !.sphereRadius = R(min(vp[1], vp[2]), 4),
     !.fragments = newFragments(seed),
     !.ambientParticles = settledAmbientParticles(vp[1], vp[2], seed),
     !.currentFracture = SimAt(level).edge,
     !.phase = SettledFrames * phaseStep]

\* one of the three sketches loaded in a window, or the fracture sketch
\* settled on a rung of the ladder
InitScenes ==
  \/ /\ NerveDataNew
     /\ scene \in { OceanGlobals(vp) : vp \in Viewports }
           \cup { FractureGlobals(vp) : vp \in Viewports }
           \cup { PulseGlobals(vp) : vp \in Viewports }
  \/ \E level \in SettledLevels :
       /\ NerveDataSettled(level)
       /\ scene \in { FractureSettled(vp, seed, level) :
                         vp \in Viewports, seed \in Seeds }

\* the sketch set up, its frames drawn and its window resized, the network
\* giving no answer
NextScenes ==
  \/ \E seed \in Seeds : setupOcean(seed)
  \/ \E flow \in Flows : drawOcean(flow)
  \/ \E vp \in Viewports : windowResizedOcean(vp)
  \/ \E seed \in Seeds : setupFracture(seed)
  \/ \E emit \in EmitChoices : drawFracture(emit)
  \/ \E vp \in Viewports : windowResizedFracture(vp)
  \/ setupPulse
  \/ \E beatValue \in BeatValues, nz \in NoiseValues : drawPulse(beatValue, nz)
  \/ \E vp \in Viewports : windowResizedPulse(vp)

SpecScenes == InitScenes /\ [][NextScenes]_vars

(***************************************************************************)
(* The fracture sketch: the thread between two fragments.                  *)
(***************************************************************************)
\* the domains of the two fragments, in samples of 0..4
ThreadDomains == {0, 1, 4}

\* the crackDelay of the two fragments, in samples
ThreadDelays == {R(1, 5), R(1, 2), R(79, 100)}

\* nerve.fragility, on both sides of the threshold 0.05
Fragilities == {R(0, 1), R(1, 25), R(1, 20), R(3, 10)}

\* the distance of the two fragments on the canvas, in units of
\* sphereRadius, on both sides of the threshold 1.5
ThreadDistances == {R(1, 2), R(3, 2), R(2, 1)}

\* fractI and fractJ of drawFragilityThreads
threadFract(currentFracture, crackDelay) ==
  constrain(easeOutCubic(max(R(0, 1),
                             RatDiv(RatSub(currentFracture, crackDelay),
                                    RatSub(R(1, 1), crackDelay)))),
            R(0, 1), R(1, 1))

\* whether drawFragilityThreads reaches line(x1, y1, x2, y2) for a pair
threadDrawn(currentFracture, frag, domainI, domainJ, dist) ==
  /\ ~(RatLess(currentFracture, R(1, 10)) \/ RatLess(frag, R(1, 20)))
  /\ domainI # domainJ
  /\ ~RatLess(R(3, 2), dist)

\* a pair of fragments, the fracture level, the fragility and their
\* distance, before the threads are drawn
InitThreads ==
  /\ NerveDataNew
  /\ scene \in { [name |-> "fracture", called |-> FALSE,
                   currentFracture |-> cf, fragility |-> fr,
                   domainI |-> di, domainJ |-> dj,
                   crackDelayI |-> ci, crackDelayJ |-> cj, dist |-> dist,
                   fractI |-> R(0, 1), fractJ |-> R(0, 1), drawn |-> FALSE] :
                   cf \in FractureGrid, fr \in Fragilities,
                   di \in ThreadDomains, dj \in ThreadDomains,
                   ci \in ThreadDelays, cj \in ThreadDelays,
                   dist \in ThreadDistances }

\* drawFragilityThreads for that pair
drawFragilityThreads ==
  /\ ~scene.called
  /\ scene' = [scene EXCEPT
                 !.called = TRUE,
                 !.fractI = threadFract(scene.currentFracture,
                                        scene.crackDelayI),
                 !.fractJ = threadFract(scene.currentFracture,
                                        scene.crackDelayJ),
                 !.drawn = threadDrawn(scene.currentFracture, scene.fragility,
                                       scene.domainI, scene.domainJ,
                                       scene.dist)]
  /\ UNCHANGED <<nerve, now, inflight, nfetch, micro, pc, ticks, clicks,
                 everSucceeded, clickRun, runStart, held, last>>

NextThreads == drawFragilityThreads

SpecThreads == InitThreads /\ [][NextThreads]_vars

(***************************************************************************)
(* The clock sketch: angles, in units of PI.                               *)
(***************************************************************************)
\* angles are sampled in steps of PI / AngleSteps, from -3 PI to 3 PI
AngleSteps == 4

Angles == { R(k, AngleSteps) : k \in (-3 * AngleSteps)..(3 * AngleSteps) }

\* JavaScript's t % m for an integer m > 0: the remainder has the sign of t
JsMod(t, m) ==
  IF t.n >= 0 THEN R(t.n % (m * t.d), t.d)
  ELSE R(-((-t.n) % (m * t.d)), t.d)

\* abs(x)
abs(x) == IF x.n < 0 THEN R(-x.n, x.d) ELSE x

\* the difference without the correction of a negative remainder
angleDifferenceUncorrected(a, b) ==
  RatSub(JsMod(RatAdd(RatSub(b, a), R(1, 1)), 2), R(1, 1))

\* angleDifference(a, b), PI being 1 and TWO_PI 2:
\*   let diff = ((b - a + PI) % TWO_PI) - PI;
\*   if (diff < -PI) diff += TWO_PI;
angleDifference(a, b) ==
  LET diff == RatSub(JsMod(RatAdd(RatSub(b, a), R(1, 1)), 2), R(1, 1))
  IN  IF RatLess(diff, R(-1, 1)) THEN RatAdd(diff, R(2, 1)) ELSE diff

\* drawMidnightMarker's proximity of the hand at angle a to the marker at b
proximity(a, b) ==
  LET p == constrain(RatSub(R(1, 1), abs(angleDifference(a, b))),
                     R(0, 1), R(1, 1))
  IN  RatMul(p, p)

\* the hand at angle a and a marker at angle b, before the frame is drawn
InitClock ==
  /\ NerveDataNew
  /\ scene \in { [name |-> "clock", called |-> FALSE, a |-> a, b |-> b,
                   diff |-> R(0, 1), proximity |-> R(0, 1)] :
                   a \in Angles, b \in Angles }

\* the frame: the difference and the proximity are computed
drawMidnightMarker ==
  /\ ~scene.called
  /\ scene' = [scene EXCEPT
                 !.called = TRUE,
                 !.diff = angleDifference(scene.a, scene.b),
                 !.proximity = proximity(scene.a, scene.b)]
  /\ UNCHANGED <<nerve, now, inflight, nfetch, micro, pc, ticks, clicks,
                 everSucceeded, clickRun, runStart, held, last>>

NextClock == drawMidnightMarker

SpecClock == InitClock /\ [][NextClock]_vars

(***************************************************************************)
(* Properties of the reconciler.                                           *)
(***************************************************************************)
\* the target: what the displayed values chase
Target == <<targetEdge, regime, fragility, targetDomains>>

\* the displayed scalar values
Current == <<edgeScore, fragility, domains>>

\* the latest step was a call of fetchLive ending in its catch block
FetchFailed == last.op = "fetchLive" /\ last.cause # "ok"

\* C1: whenever a fetch ends in failure (network error, abort, status,
\* content type, unparsable body, schema violation) while the mode is LIVE,
\* the step ends with mode SIMULATED and apiAvailable false, and fetchLive
\* returns null to its caller instead of throwing.
C1_FailureDemotes ==
  (FetchFailed /\ last.live) =>
    /\ simMode
    /\ ~apiAvailable
    /\ micro.pending => micro.isNull

C1_Witness ==
  /\ FetchFailed
  /\ last.live
  /\ last.cause = "abort"
  /\ simMode
  /\ ~apiAvailable

\* C2: the reconciler starts SIMULATED with apiAvailable false; while no
\* fetch has returned data the mode is SIMULATED; and after the startup
\* probe has failed the mode is SIMULATED.
C2_SimulatedUntilSuccess ==
  /\ last.op = "constructor" => (simMode /\ ~apiAvailable)
  /\ ~everSucceeded => simMode
  /\ (last.op = "tryInitialFetch" /\ last.cause = "null") => simMode

C2_Witness ==
  /\ last.op = "tryInitialFetch"
  /\ last.cause = "null"
  /\ ~everSucceeded
  /\ simMode

\* C3: when the fetch issued by the constructor returns a well-formed
\* payload, tryInitialFetch leaves mode LIVE and apiAvailable true.
C3_ProbeSuccessGoesLive ==
  (last.op = "tryInitialFetch" /\ last.cause = "data") =>
    (~simMode /\ apiAvailable)

C3_Witness ==
  /\ last.op = "tryInitialFetch"
  /\ last.cause = "data"
  /\ clicks = 1
  /\ ~simMode

\* C4: a tick starts a fetch if and only if the mode is LIVE and more than
\* 60000 ms have passed since the last poll timestamp, and then it sets the
\* poll timestamp to the current time; otherwise it leaves the timestamp.
C4_PollGuard ==
  last.op = "update" =>
    /\ last.started <=> (last.live /\ now - last.lf > 60000)
    /\ last.started => lastFetch = now
    /\ ~last.started => lastFetch = last.lf

C4_Witness ==
  /\ last.op = "update"
  /\ last.started
  /\ lastFetch = now
  /\ BagCardinality(inflight) >= 1

\* the text is a payload of the documented shape: a numeric edge_score, a
\* non-empty regime string, and domain_scores, if any, mapping names to
\* objects
WellFormed(text) ==
  /\ text.parses
  /\ text.data.t = "object"
  /\ text.data.edge_score.t = "number"
  /\ text.data.regime.t = "string"
  /\ text.data.regime.str # ""
  /\ text.data.domain_scores.t \in {"object", "undefined"}
  /\ \A i \in 1..Len(text.data.domain_scores.entries) :
       text.data.domain_scores.entries[i].t = "object"

\* the numeric scores the payload lists for domain d
Listed(data, d) ==
  { data.domain_scores.entries[i].score.num :
      i \in { j \in 1..Len(data.domain_scores.entries) :
                /\ data.domain_scores.entries[j].key = d
                /\ data.domain_scores.entries[j].score.t = "number" } }

\* C5: a well-formed payload received while the mode is LIVE overwrites
\* targetEdge and regime with the payload's values, overwrites the target of
\* every known domain it lists with a numeric score, leaves the targets of
\* the other domains unchanged, and sets apiAvailable.
C5_LivePayloadApplied ==
  [][\A f \in Pending, text \in Texts :
       (~simMode /\ WellFormed(text) /\ fetchLiveText(f, text)) =>
         /\ targetEdge' = text.data.edge_score.num
         /\ regime' = text.data.regime
         /\ \A d \in DomainSet :
              IF Listed(text.data, d) # {}
              THEN targetDomains'[d] \in Listed(text.data, d)
              ELSE targetDomains'[d] = targetDomains[d]
         /\ apiAvailable']_vars

C5_Witness ==
  /\ last.op = "fetchLive"
  /\ last.cause = "ok"
  /\ last.live
  /\ clicks = 1
  /\ targetEdge = R(9, 10)
  /\ regime = JStr("CRITICAL")
  /\ targetDomains["Supply Chain"] = R(6, 10)
  /\ targetDomains["Climate"] = R(8, 100)
  /\ apiAvailable

\* C6: the target changes only in a ladder selection or in a fetch that
\* succeeds while the mode is LIVE; a fetch that fails, and one that
\* succeeds in SIMULATED, leave it as it was.
C6_TargetWriters ==
  [][Target' # Target =>
       \/ last'.op = "mousePressed"
       \/ (last'.op = "fetchLive" /\ last'.cause = "ok" /\ last'.live)]_vars

\* C7: the displayed edge score, fragility and domain scores change only in
\* the smoothing step of a tick; no fetch and no ladder advance writes them.
C7_CurrentOnlySmoothed ==
  [][Current' # Current => last'.op = "update"]_vars

\* C8: a click leaves mode SIMULATED, simLevel one further round the ladder
\* of 8 and the target at the preset of the new level; simLevel is always in
\* 0..7, and 8 clicks in a row bring simLevel back to where it was.
C8_LadderAdvance ==
  /\ simLevel \in 0..7
  /\ last.op = "mousePressed" =>
       /\ simMode
       /\ clickRun >= 1
       /\ simLevel = (runStart + clickRun) % 8
       /\ targetEdge = SimAt(simLevel).edge
       /\ regime = JStr(SimAt(simLevel).regime)
       /\ fragility = SimAt(simLevel).fragility
       /\ \A d \in DomainSet : targetDomains[d] = SimAt(simLevel).domains[d]
  /\ clickRun = 8 => simLevel = runStart

C8_Witness ==
  /\ last.op = "mousePressed"
  /\ clickRun = 8
  /\ runStart = 3
  /\ simLevel = 3
  /\ everSucceeded

\* C9: a toggle with apiAvailable flips the mode and calls fetchLive exactly
\* when the flip is into LIVE; a toggle without apiAvailable changes neither
\* mode, target, simLevel nor apiAvailable and calls nothing; so no toggle
\* enters LIVE while no fetch has succeeded.
C9_Toggle ==
  [][last'.op = "keyPressed" =>
       /\ apiAvailable =>
            /\ simMode' = ~simMode
            /\ apiAvailable'
            /\ IF ~simMode'
               THEN /\ nfetch' = nfetch + 1
                    /\ inflight' = inflight (+)
                         SetToBag({Fetch("response", now, FALSE, nfetch + 1)})
               ELSE UNCHANGED <<nfetch, inflight>>
       /\ ~apiAvailable =>
            UNCHANGED <<simMode, Target, simLevel, apiAvailable, nfetch,
                        inflight>>
       /\ ~everSucceeded => simMode']_vars

C9_Witness ==
  /\ last.op = "keyPressed"
  /\ ~last.live
  /\ ~simMode
  /\ last.started
  /\ apiAvailable

\* C10: at most one call of fetchLive is outstanding at any time.
C10_OneFetchOutstanding == BagCardinality(inflight) <= 1

\* C11: every started fetch eventually resolves, because one that has not
\* completed (headers and body) when its 8 s timeout fires is aborted: a call
\* still outstanding fetchTimeout after it was made has its timer armed.
C11_TimeoutCoversBody ==
  \A f \in Pending : now - f.start >= fetchTimeout => TimerArmed(f)

\* the failure outcome of a call: fetchLive went through its catch block and
\* returned null to its caller
FailureOutcome(f) ==
  /\ last'.op = "fetchLive"
  /\ last'.cause # "ok"
  /\ ~apiAvailable'
  /\ f.probe => (micro'.pending /\ micro'.isNull)

\* C12: a response is accepted only with a success status, a JSON content
\* type, a body that parses, a numeric edge_score and a non-empty regime
\* string: a response that violates one of these ends in the failure outcome,
\* fetchLive returning null.
C12_AcceptedOnlyIfValid ==
  [][/\ \A f \in Pending, resp \in Responses :
          ( /\ fetchLiveResponse(f, resp)
            /\ ~(resp.ok /\ resp.hasType /\ IncludesJson(resp.type)) )
          => FailureOutcome(f)
     /\ \A f \in Pending, text \in AnyTexts :
          ( /\ fetchLiveText(f, text)
            /\ ~( /\ text.parses
                  /\ text.data.t = "object"
                  /\ text.data.edge_score.t = "number"
                  /\ text.data.regime.t = "string"
                  /\ text.data.regime.str # "" ) )
          => FailureOutcome(f)
    ]_vars

\* C13: a fetch whose body is malformed JSON yields a failure outcome and
\* leaves both target and mode exactly as they were before it resolved.
C13_MalformedLeavesTargetAndMode ==
  [][(last'.op = "fetchLive" /\ last'.cause = "parse") =>
       /\ ~apiAvailable'
       /\ Target' = Target
       /\ simMode' = simMode]_vars

\* C13, amended: a fetch whose body is malformed JSON yields a failure
\* outcome and leaves the target exactly as it was; the mode is SIMULATED
\* afterwards, which leaves it as it was if it was SIMULATED and demotes it
\* if it was LIVE.
C13_MalformedLeavesTarget ==
  [][(last'.op = "fetchLive" /\ last'.cause = "parse") =>
       /\ ~apiAvailable'
       /\ Target' = Target
       /\ simMode']_vars

C13_Witness ==
  /\ last.op = "fetchLive"
  /\ last.cause = "parse"
  /\ last.live
  /\ simMode
  /\ ~apiAvailable
  /\ targetEdge = R(9, 10)

\* C14: a payload that passes the required-field validation counts as a
\* success whatever its domain entries are; in LIVE its edge score is applied,
\* a known domain listed with a numeric score gets it, and every other domain
\* (one whose entry is null, not an object or without a numeric score
\* included) keeps its prior target; and a fetch that ends as a failure leaves
\* the target as it was.
C14_BadEntriesDropped ==
  [][/\ \A f \in Pending, text \in Texts :
          ( /\ fetchLiveText(f, text)
            /\ text.parses
            /\ text.data.t = "object"
            /\ ~Invalid(text.data) )
          => /\ last'.cause = "ok"
             /\ apiAvailable'
             /\ ~simMode =>
                  /\ targetEdge' = text.data.edge_score.num
                  /\ \A d \in DomainSet :
                       IF Listed(text.data, d) # {}
                       THEN targetDomains'[d] \in Listed(text.data, d)
                       ELSE targetDomains'[d] = targetDomains[d]
     /\ (last'.op = "fetchLive" /\ last'.cause # "ok") => Target' = Target
    ]_vars

\* C15: in every reachable state the keys of the current and of the target
\* domain scores are exactly the five fixed domains.
C15_FiveDomainKeys ==
  /\ DOMAIN domains = DomainSet
  /\ DOMAIN targetDomains = DomainSet

\* the target that current chases is the ladder preset of a level
TargetIsPreset(level) ==
  /\ targetEdge = SimAt(level).edge
  /\ \A d \in DomainSet : targetDomains[d] = SimAt(level).domains[d]

\* C16: after a fetch failure has demoted the reconciler from LIVE to
\* SIMULATED, the target that current chases is the ladder preset at simLevel.
C16_DemotionFallsBackToLadder ==
  (FetchFailed /\ last.live /\ simMode) => TargetIsPreset(simLevel)

RECURSIVE RatPow(_, _)
RatPow(a, k) == IF k = 0 THEN R(1, 1) ELSE RatMul(a, RatPow(a, k - 1))

\* target - (target - c0) * (1 - k)^N, given (1 - k)^N
ClosedForm(c0, target, decay) ==
  RatSub(target, RatMul(RatSub(target, c0), decay))

\* C17: with the target held fixed, after N frames the displayed edge score
\* and each displayed domain score is target - (target - current_0) *
\* (1 - k)^N with k = 0.02, current_0 being the value displayed when the
\* target was last assigned.
C17_ClosedForm ==
  LET decay == RatPow(RatSub(R(1, 1), lerpSpeed), held.n) IN
  /\ lerpSpeed = R(1, 50)
  /\ edgeScore = ClosedForm(held.edge, targetEdge, decay)
  /\ \A d \in DomainSet :
       domains[d] = ClosedForm(held.domains[d], targetDomains[d], decay)

C17_Witness ==
  /\ last.op = "update"
  /\ held.n = 2
  /\ held.edge = R(1, 10)
  /\ targetEdge = R(22, 100)
  /\ edgeScore = R(26188, 250000)
  /\ domains["Markets"] # held.domains["Markets"]
  /\ domains["Markets"] # targetDomains["Markets"]

\* 0 <= x <= 1
InUnit(x) == RatLeq(R(0, 1), x) /\ RatLeq(x, R(1, 1))

\* C18: in every reachable state the current and the target edge score and
\* every current and target domain score lie in [0, 1].
C18_ScoresInUnitInterval ==
  /\ InUnit(edgeScore)
  /\ InUnit(targetEdge)
  /\ \A d \in DOMAIN domains : InUnit(domains[d])
  /\ \A d \in DOMAIN targetDomains : InUnit(targetDomains[d])

\* one frame on one history: sample is appended at the tail and, when the
\* history was full, the oldest sample is removed
FramePushed(old, new, sample) ==
  new = IF Len(old) >= maxHistory THEN Append(Tail(old), sample)
        ELSE Append(old, sample)

\* C19: the main history and each of the five domain histories hold at most
\* 800 samples in every state, and each frame appends its one new sample at
\* the tail of each and, the history being full, removes exactly the oldest,
\* so that the stored order is the order of insertion.
C19_HistoryBounded ==
  /\ [](/\ Len(scene.history) <= maxHistory
        /\ \A d \in DOMAIN scene.domainHistories :
             Len(scene.domainHistories[d]) <= maxHistory)
  /\ [][last'.op = "update" =>
          /\ DOMAIN scene'.domainHistories = DomainSet
          /\ FramePushed(scene.history, scene'.history,
               RatAdd(edgeScore',
                      RatMul(RatMul(scene'.beatValue, edgeScore'), R(1, 2))))
          /\ \A d \in DomainSet :
               FramePushed(scene.domainHistories[d],
                           scene'.domainHistories[d],
                           RatAdd(RatAdd(domains'[d],
                                         RatMul(RatMul(scene'.beatValue,
                                                       domains'[d]),
                                                R(4, 10))),
                                  RatMul(scene'.noise, R(5, 100))))
       ]_vars

C19_Witness ==
  /\ scene.name = "pulse"
  /\ last.op = "update"
  /\ ticks = 2
  /\ Len(scene.history) = maxHistory
  /\ scene.history[maxHistory - 2] = R(1, 10)
  /\ scene.history[maxHistory - 1] # R(1, 10)
  /\ scene.history[maxHistory] # scene.history[maxHistory - 1]
  /\ Len(scene.domainHistories["Markets"]) = maxHistory
  /\ scene.domainHistories["Markets"][maxHistory] # R(1, 100)

\* C20: for a fixed crackDelay in [0.2, 0.8), the fragment's local fracture
\* is within [0, 1], is 0 whenever currentFracture is at most the crackDelay,
\* and does not decrease from one frame to another in which currentFracture
\* is at least as large.
C20_LocalFractureMonotone ==
  /\ [](scene.drawn =>
          /\ RatLeq(R(1, 5), scene.crackDelay)
          /\ RatLess(scene.crackDelay, R(4, 5))
          /\ InUnit(scene.fractureAmount)
          /\ RatLeq(scene.currentFracture, scene.crackDelay) =>
               scene.fractureAmount = R(0, 1))
  /\ [][(scene.drawn /\ RatLeq(scene.currentFracture, scene'.currentFracture))
          => RatLeq(scene.fractureAmount, scene'.fractureAmount)]_vars

C20_Witness ==
  /\ scene.name = "fracture"
  /\ scene.drawn
  /\ scene.crackDelay = R(1, 2)
  /\ scene.currentFracture = R(7, 10)
  /\ scene.fractureAmount = R(98, 125)

\* C21: with the noise term disabled, generateHeartbeat returns the same
\* value for t and for t + 1, for every phase t that draw passes.
C21_HeartbeatPeriodic ==
  scene.called => scene.beatValue = scene.beatValueNext

\* what a sketch has accumulated since its setup, as against what it lays
\* out from the size of the canvas
Accumulated(s) ==
  IF s.name = "ocean" THEN <<s.particles>>
  ELSE IF s.name = "fracture"
       THEN <<s.fragments, s.orbParticles, s.ambientParticles,
              s.currentFracture, s.phase>>
  ELSE <<s.history, s.domainHistories, s.phase, s.beatPhase, s.lastBeat>>

windowResized ==
  \E vp \in Viewports :
    \/ windowResizedOcean(vp)
    \/ windowResizedFracture(vp)
    \/ windowResizedPulse(vp)

\* C22: a resize of the window leaves the accumulated state alone: the
\* ocean's particle pool, the fracture sketch's fragments and particles, the
\* pulse sketch's histories and the reconciler are after the resize what they
\* were before it; only the canvas and what is laid out from its size change.
C22_ResizeKeepsState ==
  [][windowResized =>
       /\ Accumulated(scene') = Accumulated(scene)
       /\ nerve' = nerve]_vars

\* the ocean's window made narrower after a frame: the pool is whole, with a
\* particle still where the canvas no longer reaches
C22_Witness ==
  /\ last.op = "windowResized"
  /\ scene.name = "ocean"
  /\ ticks > 0
  /\ Len(scene.particles) = maxParticles
  /\ \E i \in 1..maxParticles : scene.particles[i].x > scene.width

\* how many entities each pool of a sketch holds
PoolSizes(s) ==
  IF s.name = "ocean" THEN <<Len(s.particles)>>
  ELSE IF s.name = "fracture"
       THEN <<Len(s.fragments), Len(s.orbParticles), Len(s.ambientParticles)>>
  ELSE << >>

\* every particle of the ocean is on the canvas with life left
OceanPoolAlive(s) ==
  /\ Len(s.particles) = maxParticles
  /\ \A i \in 1..maxParticles :
       /\ s.particles[i].x >= 0 /\ s.particles[i].x <= s.width
       /\ s.particles[i].y >= 0 /\ s.particles[i].y <= s.height
       /\ s.particles[i].life > 0

\* the ocean's part of C23: no step after setup changes the size of the
\* pool, and every frame ends with the pool alive on the canvas
OceanPoolFixed ==
  [][(pc = "running" /\ scene.name = "ocean") =>
       /\ PoolSizes(scene') = PoolSizes(scene)
       /\ last'.op = "update" => OceanPoolAlive(scene')]_vars

\* C23: once a sketch is set up the number of its entities is fixed: no
\* frame appends to or removes from a pool, an expired or strayed particle
\* being respawned in place; the ocean's pool holds maxParticles particles,
\* each on the canvas with life left at the end of a frame.
C23_PoolsFixed ==
  [][pc = "running" =>
       /\ PoolSizes(scene') = PoolSizes(scene)
       /\ (scene.name = "ocean" /\ last'.op = "update") =>
            OceanPoolAlive(scene')]_vars

\* C24: a fragility thread is drawn between two fragments only if they are
\* of different domains, both have separated (a local fracture above 0),
\* their distance is within its threshold and the fragility is at or above
\* its threshold.
C24_ThreadOnlyBetweenSeparated ==
  scene.drawn =>
    /\ scene.domainI # scene.domainJ
    /\ RatLess(R(0, 1), scene.fractI) /\ RatLess(R(0, 1), scene.fractJ)
    /\ RatLeq(scene.dist, R(3, 2))
    /\ RatLeq(R(1, 20), scene.fragility)

\* what the code does guarantee of a thread drawn
ThreadGuards ==
  scene.drawn =>
    /\ scene.domainI # scene.domainJ
    /\ RatLeq(R(1, 10), scene.currentFracture)
    /\ RatLeq(scene.dist, R(3, 2))
    /\ RatLeq(R(1, 20), scene.fragility)

\* x is a whole number of turns (of 2, in units of PI)
WholeTurns(x) == x.n % (2 * x.d) = 0

\* C25: for all angles a and b, negative ones and ones beyond a turn among
\* them, angleDifference(a, b) is congruent to b - a modulo a turn and lies
\* in [-PI, PI]; the proximity to the marker lies in [0, 1] and is 1 exactly
\* when the hand points at the marker.
C25_AngleDifference ==
  scene.called =>
    /\ WholeTurns(RatSub(scene.diff, RatSub(scene.b, scene.a)))
    /\ RatLeq(R(-1, 1), scene.diff) /\ RatLeq(scene.diff, R(1, 1))
    /\ RatLeq(R(0, 1), scene.proximity) /\ RatLeq(scene.proximity, R(1, 1))
    /\ scene.proximity = R(1, 1) <=> WholeTurns(RatSub(scene.b, scene.a))

\* the hand a turn ahead of the marker it points at: the remainder is
\* negative and corrected, and the proximity is 1
C25_Witness ==
  /\ scene.called
  /\ RatLess(RatAdd(RatSub(scene.b, scene.a), R(1, 1)), R(0, 1))
  /\ scene.diff = R(0, 1)
  /\ scene.proximity = R(1, 1)

\* C26: once a click has forced SIMULATED the mode stays SIMULATED until the
\* space bar is pressed: no answer of the network, the constructor's call
\* that was in flight at the click and succeeds later among them, brings
\* LIVE back. (The space bar is never pressed in SpecClicks.)
C26_ClickHoldsSimulated == clicks > 0 => simMode

\* the calls there can be, ended or not
Started ==
  { Fetch("text", s, i = 1, i) : s \in {0, ClockStep, MaxTime},
                                i \in 1..MaxFetches }

\* C27: of two calls that both succeed in LIVE, target ends up with the
\* payload of the one started last, whichever answer comes first: a call
\* that succeeds in LIVE while target holds the payload of a call started
\* after it leaves target alone.
C27_LastStartedWins ==
  [][\A f \in Resolved :
       (/\ last'.op = "fetchLive" /\ last'.cause = "ok" /\ last'.live
        /\ \E g \in Started :
             /\ StartOrder(g) > StartOrder(f)
             /\ targetEdge = SnapshotAt(g).edge_score.num)
       => targetEdge' = targetEdge]_vars

\* C28: when the constructor's call succeeds and its continuation switches
\* the mode to LIVE, target holds the snapshot that call fetched.
C28_ProbeSnapshotApplied ==
  [][(last'.op = "tryInitialFetch" /\ simMode /\ ~simMode') =>
       targetEdge' = micro.data.edge_score.num]_vars

\* no call in flight, the API known to be unavailable, the mode SIMULATED
Stuck ==
  /\ inflight = EmptyBag
  /\ ~apiAvailable
  /\ simMode
  /\ micro.pending => micro.isNull

\* C29: once a call of fetchLive has failed and no other call is in flight,
\* the reconciler stays where it is: no frame, click or key starts a call,
\* apiAvailable stays false and the mode stays SIMULATED, in every later
\* state.
C29_StuckAfterFailure ==
  /\ []((FetchFailed /\ inflight = EmptyBag) => Stuck)
  /\ [][Stuck => (Stuck' /\ nfetch' = nfetch)]_vars

\* stuck, after a frame, a click and a press of the space bar that was
\* refused
C29_Witness ==
  /\ Stuck
  /\ last.op = "keyPressed"
  /\ ticks > 0
  /\ clicks > 0

\* C30: in every reachable state, however the answers of the network, the
\* continuation of tryInitialFetch, the frames, the clicks and the space bar
\* interleave, LIVE implies apiAvailable.
C30_LiveImpliesAvailable == ~simMode => apiAvailable

\* LIVE after a click and a frame, a call having just succeeded
C30_Witness ==
  /\ ~simMode
  /\ apiAvailable
  /\ last.op = "fetchLive"
  /\ last.cause = "ok"
  /\ clicks > 0
  /\ ticks > 0

====
